---- MODULE Spec2Model ----
(***************************************************************************)
(* A model of db/unitdb/adapter.go: the tiny batch (Append), the flush to  *)
(* the write ahead log (Write) and the replay of the log (Recovery).       *)
(*                                                                         *)
(* The collaborators (bpool.Buffer, wal.WAL, its writer and its reader)    *)
(* are modelled by the calls the adapter makes on them: each call either   *)
(* succeeds or fails, and the calls on the WAL are recorded in `calls`.     *)
(*                                                                         *)
(* The uint32 values (the length field, offset, entryCount) stay far below *)
(* 2^32 within the bounds, so their arithmetic is not reduced modulo 2^32. *)
(***************************************************************************)
EXTENDS Integers, Sequences, FiniteSets, TLC

\* ---------------------------------------------------------------- bounds
MaxAppends == 2      \* Append calls in one behaviour
MaxWrites == 2       \* Write calls in one behaviour
MaxNow == 1          \* the wall clock reads 0 to MaxNow
Dur == 1             \* config.dur, the epoch window given to Open
MaxEpochs == 2       \* epochs in the log that Recovery replays
MaxEntries == 3      \* entries in that log, over all its epochs
MaxPayload == 1      \* bytes of the short payloads the record codec is tried on
MaxLifeCalls == 3    \* Open and Close calls in one behaviour

Procs == {1, 2}                  \* the goroutines calling Append and Write
NilData == <<256>>               \* the nil payload: no byte sequence

\* the arguments Append is called with: a set, a delete without payload, and a
\* set of an empty payload (258 is a key of two non-zero bytes)
Inputs == {[del |-> FALSE, k |-> 1, data |-> <<7>>],
           [del |-> TRUE, k |-> 258, data |-> NilData],
           [del |-> FALSE, k |-> 258, data |-> <<>>]}

NoRec == [del |-> FALSE, k |-> 0, data |-> NilData]

\* ---------------------------------------------------------------- encoding
Max(a, b) == IF a < b THEN b ELSE a

\* the w low bytes of n, the least significant first
RECURSIVE PutLittleEndian(_, _)
PutLittleEndian(n, w) ==
    IF w = 0 THEN <<>> ELSE <<n % 256>> \o PutLittleEndian(n \div 256, w - 1)

\* binary.LittleEndian.PutUint32
PutUint32(n) == PutLittleEndian(n, 4)

\* binary.LittleEndian.PutUint64
PutUint64(k) == PutLittleEndian(k, 8)

\* binary.LittleEndian.Uint32 / Uint64 of a byte sequence
RECURSIVE LittleEndian(_)
LittleEndian(b) == IF b = <<>> THEN 0 ELSE b[1] + 256 * LittleEndian(Tail(b))

\* len(data): a nil slice has length 0
DataBytes(data) == IF data = NilData THEN <<>> ELSE data

\* a length field that counts the flag, the key and the payload only
ScratchRegionOnly(data) == PutUint32(Len(DataBytes(data)) + 8 + 1)

\* Append: the length field written first
Scratch(data) == PutUint32(Len(DataBytes(data)) + 8 + 4 + 1)

\* Append: the key with its flag bit
KeyBytes(del, k) == <<IF del THEN 1 ELSE 0>> \o PutUint64(k)

\* the region of one record that follows its length field
Region(r) == KeyBytes(r.del, r.k) \o DataBytes(r.data)

\* ---------------------------------------------------------------- state
VARIABLES
    mem,         \* the backing array of tinyBatch.buffer (bytes once written stay)
    blen,        \* the length of tinyBatch.buffer: Bytes() is mem[1..blen]
    entryCount,  \* tinyBatch.entryCount
    writeLockC,  \* the number of elements held by the channel writeLockC
    chanCap,     \* the capacity of the channel writeLockC
    pc,          \* each goroutine's position
    rec,         \* Append's arguments
    offset,      \* Write's offset
    idx,         \* Write's loop index i
    bufLen,      \* len(buf) of the slice Write took from buffer.Bytes()
    err,         \* the value Write is returning, while its deferred function runs
    ret,         \* what the last call of each goroutine returned
    logWriter,   \* the WAL writer Write opened, by the number of the Write call
    calls,       \* the calls made on the collaborators, with their outcomes
    appended,    \* the records whose Append returned nil, in order
    now,         \* the last reading of the wall clock
    nAppends,    \* Append calls so far
    nWrites,     \* Write calls so far
    crashed,     \* the process died of a panic
    wlog,        \* Recovery: the log, a sequence of epochs of entries
    rpc,         \* Recovery: position
    epochIdx,    \* Recovery: the epoch the reader is at
    entryIdx,    \* Recovery: the callback's loop index i
    m,           \* Recovery: the map being built
    replayed,    \* Recovery: the entries r.Next() has returned, in order
    rret,        \* Recovery: the error returned
    resetArg,    \* Recovery: its argument reset
    db,          \* adapter.db is not nil
    config,      \* adapter.config
    closer,      \* adapter.closer is not nil
    version,     \* adapter.version
    life         \* the Open and Close calls that returned, in order

batchVars == <<mem, blen, entryCount>>

procVars == <<pc, rec, offset, idx, bufLen, err, ret, logWriter>>

walVars == <<writeLockC, chanCap, calls, now>>

ghostVars == <<appended, nAppends, nWrites, crashed>>

recoveryVars == <<wlog, rpc, epochIdx, entryIdx, m, replayed, rret, resetArg>>

lifeVars == <<db, config, closer, version, life>>

vars == <<batchVars, procVars, walVars, ghostVars, recoveryVars, lifeVars>>

\* ---------------------------------------------------------------- bpool.Buffer
\* buffer.Bytes()
Bytes == SubSeq(mem, 1, blen)

\* the backing array after buffer.Write(bs): bs lands at the buffer's end
Written(bs) ==
    [i \in 1..Max(Len(mem), blen + Len(bs)) |->
        IF i > blen /\ i <= blen + Len(bs) THEN bs[i - blen] ELSE mem[i]]

\* buffer.Write(bs) that succeeds
BufferWrite(bs) ==
    /\ mem' = Written(bs)
    /\ blen' = blen + Len(bs)

\* ---------------------------------------------------------------- epochs
\* time.Now(): the clock reads t, not earlier than its last reading
TimeNow(t) ==
    /\ t \in now..MaxNow
    /\ now' = t

\* timeID: the reading truncated to the window
timeID(t) == (t \div Dur) * Dur

\* the boundary signal given the current window
nexTimeIDCurrent(t) == (t \div Dur) * Dur

\* nexTimeID: the window after the current one
nexTimeID(t) == (t \div Dur) * Dur + Dur

\* ---------------------------------------------------------------- Append
AppendPcs == {"a_key", "a_data", "a_count"}

\* The caller serializes Append calls: the batch has no write-write exclusion.
NoAppendRunning == \A q \in Procs : pc[q] \notin AppendPcs

\* Append returns e
AppendReturn(p, e, n) ==
    /\ pc' = [pc EXCEPT ![p] = "idle"]
    /\ rec' = [rec EXCEPT ![p] = NoRec]
    /\ ret' = [ret EXCEPT ![p] = [op |-> "Append", e |-> e, n |-> n]]

\* Append is called and writes the length field; a failed write returns the error
AppendCall(p) ==
    /\ ~crashed
    /\ pc[p] = "idle"
    /\ NoAppendRunning
    /\ nAppends < MaxAppends
    /\ nAppends' = nAppends + 1
    /\ \E in \in Inputs, ok \in BOOLEAN :
        /\ IF ok
           THEN /\ BufferWrite(Scratch(in.data))
                /\ rec' = [rec EXCEPT ![p] = in]
                /\ pc' = [pc EXCEPT ![p] = "a_key"]
                /\ ret' = [ret EXCEPT ![p] = [op |-> "Append", e |-> "none",
                                               n |-> nAppends + 1]]
           ELSE /\ AppendReturn(p, "err", nAppends + 1)
                /\ UNCHANGED <<mem, blen>>
    /\ UNCHANGED <<entryCount, offset, idx, bufLen, err, logWriter, walVars, appended,
                   nWrites, crashed, recoveryVars, lifeVars>>

\* Append writes the flag byte and the key
AppendKey(p) ==
    /\ ~crashed
    /\ pc[p] = "a_key"
    /\ \E ok \in BOOLEAN :
        IF ok
        THEN /\ BufferWrite(KeyBytes(rec[p].del, rec[p].k))
             /\ pc' = [pc EXCEPT ![p] = "a_data"]
             /\ UNCHANGED <<ret, rec>>
        ELSE /\ AppendReturn(p, "err", ret[p].n)
             /\ UNCHANGED <<mem, blen>>
    /\ UNCHANGED <<entryCount, offset, idx, bufLen, err, logWriter, walVars, ghostVars,
                   recoveryVars, lifeVars>>

\* Append writes the payload unless it is nil
AppendData(p) ==
    /\ ~crashed
    /\ pc[p] = "a_data"
    /\ IF rec[p].data = NilData
       THEN /\ pc' = [pc EXCEPT ![p] = "a_count"]
            /\ UNCHANGED <<mem, blen, ret, rec>>
       ELSE \E ok \in BOOLEAN :
            IF ok
            THEN /\ BufferWrite(rec[p].data)
                 /\ pc' = [pc EXCEPT ![p] = "a_count"]
                 /\ UNCHANGED <<ret, rec>>
            ELSE /\ AppendReturn(p, "err", ret[p].n)
                 /\ UNCHANGED <<mem, blen>>
    /\ UNCHANGED <<entryCount, offset, idx, bufLen, err, logWriter, walVars, ghostVars,
                   recoveryVars, lifeVars>>

\* a count that an Append leaves as it is
incountNone == entryCount

\* tinyBatch.incount
incount == entryCount + 1

\* tinyBatch.count
count == entryCount

\* Append counts the record and returns nil
AppendCount(p) ==
    /\ ~crashed
    /\ pc[p] = "a_count"
    /\ entryCount' = incount
    /\ AppendReturn(p, "nil", ret[p].n)
    /\ appended' = Append(appended, rec[p])
    /\ UNCHANGED <<mem, blen, offset, idx, bufLen, err, logWriter, walVars, nAppends,
                   nWrites, crashed, recoveryVars, lifeVars>>

\* ---------------------------------------------------------------- Write
WritePcs == {"acquire", "loop", "signalInit", "reset", "signalApplied", "deferred"}

\* the positions between the send on writeLockC and the receive from it
LockedPcs == WritePcs \ {"acquire"}

\* a call on the WAL, its writer or its reader, recorded with its outcome
Called(c) == calls' = Append(calls, c)

\* Write returns e to the callers in rs (its locals are gone); a panic that
\* leaves Write ends the process
WriteReturn(rs, e, n) ==
    /\ ret' = [q \in Procs |->
                IF q \in rs THEN [op |-> "Write", e |-> e[q], n |-> n[q]] ELSE ret[q]]
    /\ crashed' = (crashed \/ \E q \in rs : e[q] = "panic")
    /\ err' = [q \in Procs |-> IF q \in rs THEN "nil" ELSE err[q]]
    /\ logWriter' = [q \in Procs |-> IF q \in rs THEN 0 ELSE logWriter[q]]

\* a Write that flushes whatever the count is
NothingToWriteNever == FALSE

\* Write's first test: a.tinyBatch.count() == 0
NothingToWrite == count = 0

\* a Write that goes on with the writer whatever NewWriter returned
NewWriterFailedNever(ok) == FALSE

\* Write's test of the error of a.wal.NewWriter()
NewWriterFailed(ok) == ~ok

\* Write is called: an empty batch returns nil, else a WAL writer is opened
WriteCall(p) ==
    /\ ~crashed
    /\ pc[p] = "idle"
    /\ nWrites < MaxWrites
    /\ nWrites' = nWrites + 1
    /\ IF NothingToWrite
       THEN /\ WriteReturn({p}, [q \in Procs |-> "nil"], [q \in Procs |-> nWrites + 1])
            /\ UNCHANGED <<pc, calls>>
       ELSE \E ok \in BOOLEAN :
            /\ Called([op |-> "NewWriter", w |-> nWrites + 1, ok |-> ok])
            /\ IF ~NewWriterFailed(ok)
               THEN /\ pc' = [pc EXCEPT ![p] = "acquire"]
                    /\ ret' = [ret EXCEPT ![p] = [op |-> "Write", e |-> "none",
                                                   n |-> nWrites + 1]]
                    /\ logWriter' = [logWriter EXCEPT ![p] = nWrites + 1]
                    /\ UNCHANGED <<crashed, err>>
               ELSE /\ WriteReturn({p}, [q \in Procs |-> "NewWriter"],
                                    [q \in Procs |-> nWrites + 1])
                    /\ pc' = pc
    /\ UNCHANGED <<batchVars, rec, offset, idx, bufLen, writeLockC, chanCap,
                   now, appended, nAppends, recoveryVars, lifeVars>>

\* a send that never waits
CanSendAlways == TRUE

\* the send finds a free slot in the channel
CanSend == writeLockC < chanCap

\* The send on writeLockC, then offset and buf are set. The send puts an element
\* in a free slot of the channel; on a channel without a slot it completes only
\* together with the receive of a goroutine q that is in its deferred function,
\* which resets the buffer before it receives.
WriteAcquire(p) ==
    /\ ~crashed
    /\ pc[p] = "acquire"
    /\ IF CanSend
       THEN /\ writeLockC' = writeLockC + 1
            /\ pc' = [pc EXCEPT ![p] = "loop"]
            /\ offset' = [offset EXCEPT ![p] = 0]
            /\ idx' = [idx EXCEPT ![p] = 0]
            /\ bufLen' = [bufLen EXCEPT ![p] = blen]
            /\ UNCHANGED <<blen, ret, crashed, err, logWriter>>
       ELSE /\ chanCap = 0
            /\ \E q \in Procs \ {p} :
                /\ pc[q] = "deferred"
                /\ pc' = [pc EXCEPT ![p] = "loop", ![q] = "idle"]
                /\ WriteReturn({q}, err, logWriter)
                /\ offset' = [offset EXCEPT ![p] = 0, ![q] = 0]
                /\ idx' = [idx EXCEPT ![p] = 0, ![q] = 0]
                /\ bufLen' = [bufLen EXCEPT ![p] = 0, ![q] = 0]
            /\ blen' = 0
            /\ writeLockC' = writeLockC
    /\ UNCHANGED <<mem, entryCount, rec, chanCap, calls, now, appended,
                   nAppends, nWrites, recoveryVars, lifeVars>>

\* dataLen read at offset, -1 when buf[offset : offset+4] is outside the array
DataLenAt(o) ==
    IF o + 4 > Len(mem) THEN -1 ELSE LittleEndian(SubSeq(mem, o + 1, o + 4))

\* buf[offset+4 : offset+dataLen] can be taken from the backing array
Sliceable(o, dataLen) ==
    /\ dataLen >= 4
    /\ o + dataLen <= Len(mem)

\* data := buf[offset+4 : offset+dataLen]
Slice(o, dataLen) == SubSeq(mem, o + 4 + 1, o + dataLen)

\* One turn of the loop: the record at offset is sliced out of buf and appended
\* to the WAL writer. A slice expression outside the backing array, or with its
\* end before its start, panics; one that ends after len(buf) panics unless the
\* capacity of buf reaches it, which the adapter does not control.
WriteLoop(p) ==
    /\ ~crashed
    /\ pc[p] = "loop"
    /\ IF idx[p] < count
       THEN LET o == offset[p]
                dataLen == DataLenAt(o)
            IN  \E panics \in BOOLEAN, ok \in BOOLEAN :
                /\ ~Sliceable(o, dataLen) => panics
                /\ panics => ~Sliceable(o, dataLen) \/ o + dataLen > bufLen[p]
                /\ panics => ~ok
                /\ IF panics
                   THEN /\ err' = [err EXCEPT ![p] = "panic"]
                        /\ pc' = [pc EXCEPT ![p] = "deferred"]
                        /\ UNCHANGED <<offset, idx, calls>>
                   ELSE /\ Called([op |-> "Append", w |-> logWriter[p], ok |-> ok,
                                   data |-> Slice(o, dataLen)])
                        /\ IF ok
                           THEN /\ offset' = [offset EXCEPT ![p] = o + dataLen]
                                /\ idx' = [idx EXCEPT ![p] = idx[p] + 1]
                                /\ UNCHANGED <<err, pc>>
                           ELSE /\ err' = [err EXCEPT ![p] = "Append"]
                                /\ pc' = [pc EXCEPT ![p] = "deferred"]
                                /\ UNCHANGED <<offset, idx>>
       ELSE /\ pc' = [pc EXCEPT ![p] = "signalInit"]
            /\ UNCHANGED <<offset, idx, err, calls>>
    /\ UNCHANGED <<batchVars, rec, bufLen, ret, logWriter, writeLockC, chanCap,
                   now, ghostVars, recoveryVars, lifeVars>>

\* logWriter.SignalInitWrite(nexTimeID(dur))
WriteSignalInit(p) ==
    /\ ~crashed
    /\ pc[p] = "signalInit"
    /\ \E ok \in BOOLEAN, t \in 0..MaxNow :
        /\ TimeNow(t)
        /\ Called([op |-> "SignalInitWrite", w |-> logWriter[p], ok |-> ok,
                   id |-> nexTimeID(t), at |-> t])
        /\ IF ok
           THEN /\ pc' = [pc EXCEPT ![p] = "reset"]
                /\ err' = err
           ELSE /\ err' = [err EXCEPT ![p] = "SignalInitWrite"]
                /\ pc' = [pc EXCEPT ![p] = "deferred"]
    /\ UNCHANGED <<batchVars, rec, offset, idx, bufLen, ret, logWriter, writeLockC,
                   chanCap, ghostVars, recoveryVars, lifeVars>>

\* tinyBatch.reset
reset == entryCount' = 0

\* a.tinyBatch.reset()
WriteReset(p) ==
    /\ ~crashed
    /\ pc[p] = "reset"
    /\ reset
    /\ pc' = [pc EXCEPT ![p] = "signalApplied"]
    /\ UNCHANGED <<mem, blen, rec, offset, idx, bufLen, err, ret, logWriter,
                   walVars, ghostVars, recoveryVars, lifeVars>>

\* return a.wal.SignalLogApplied(timeID(dur))
WriteSignalApplied(p) ==
    /\ ~crashed
    /\ pc[p] = "signalApplied"
    /\ \E ok \in BOOLEAN, t \in 0..MaxNow :
        /\ TimeNow(t)
        /\ Called([op |-> "SignalLogApplied", w |-> logWriter[p], ok |-> ok,
                   id |-> timeID(t), at |-> t])
        /\ err' = [err EXCEPT ![p] = IF ok THEN "nil" ELSE "SignalLogApplied"]
    /\ pc' = [pc EXCEPT ![p] = "deferred"]
    /\ UNCHANGED <<batchVars, rec, offset, idx, bufLen, ret, logWriter, writeLockC,
                   chanCap, ghostVars, recoveryVars, lifeVars>>

\* a deferred function that leaves the element in the channel
ReceiveSkipped ==
    /\ writeLockC > 0
    /\ writeLockC' = writeLockC

\* <-a.writeLockC: the receive of an element the channel holds
Receive ==
    /\ writeLockC > 0
    /\ writeLockC' = writeLockC - 1

\* The deferred function: a.tinyBatch.buffer.Reset(), then the receive from
\* writeLockC, and Write returns.
WriteDeferred(p) ==
    /\ ~crashed
    /\ pc[p] = "deferred"
    /\ blen' = 0
    /\ Receive
    /\ pc' = [pc EXCEPT ![p] = "idle"]
    /\ WriteReturn({p}, err, logWriter)
    /\ offset' = [offset EXCEPT ![p] = 0]
    /\ idx' = [idx EXCEPT ![p] = 0]
    /\ bufLen' = [bufLen EXCEPT ![p] = 0]
    /\ UNCHANGED <<mem, entryCount, rec, chanCap, calls, now, appended, nAppends,
                   nWrites, recoveryVars, lifeVars>>

\* Write: the step its caller p is at
Write(p) ==
    /\ pc[p] \in WritePcs \cup {"idle"}
    /\ \/ WriteCall(p)
       \/ WriteAcquire(p)
       \/ WriteLoop(p)
       \/ WriteSignalInit(p)
       \/ WriteReset(p)
       \/ WriteSignalApplied(p)
       \/ WriteDeferred(p)

\* ---------------------------------------------------------------- Recovery
\* the records a log holds, as the WAL reader returns them (without length field)
LogInputs == {[del |-> FALSE, k |-> 1, data |-> <<7>>],
              [del |-> FALSE, k |-> 1, data |-> <<8>>],
              [del |-> TRUE, k |-> 1, data |-> NilData],
              [del |-> FALSE, k |-> 258, data |-> <<7>>]}

\* the sequences over S of at most n elements
RECURSIVE SeqsUpTo(_, _)
SeqsUpTo(S, n) ==
    IF n = 0 THEN {<<>>}
    ELSE LET shorter == SeqsUpTo(S, n - 1)
         IN  shorter \cup {Append(q, x) : q \in shorter, x \in S}

\* the ways to cut the entries es into at most n epochs (an epoch may be empty)
RECURSIVE Epochs(_, _)
Epochs(es, n) ==
    (IF es = <<>> THEN {<<>>} ELSE {}) \cup
    (IF n = 0 THEN {}
     ELSE UNION {{<<SubSeq(es, 1, i)>> \o rest :
                     rest \in Epochs(SubSeq(es, i + 1, Len(es)), n - 1)} :
                 i \in 0..Len(es)})

\* the logs Recovery is given: epochs, oldest first, of entries, oldest first
Logs ==
    UNION {Epochs(es, MaxEpochs) :
              es \in SeqsUpTo({Region(r) : r \in LogInputs}, MaxEntries)}

\* make(map[uint64][]byte)
EmptyMap == [k \in {} |-> <<>>]

\* delete(m, key)
MapDelete(mp, key) == [k \in DOMAIN mp \ {key} |-> mp[k]]

\* a map assignment that keeps the value a key already has
MapSetKeepsFirst(mp, key, msg) ==
    [k \in DOMAIN mp \cup {key} |-> IF k \in DOMAIN mp THEN mp[k] ELSE msg]

\* m[key] = msg
MapSet(mp, key, msg) ==
    [k \in DOMAIN mp \cup {key} |-> IF k = key THEN msg ELSE mp[k]]

\* the callback decodes an entry: logData[0], logData[1:9], logData[9:]
Decode(logData) ==
    [dBit |-> logData[1],
     key |-> LittleEndian(SubSeq(logData, 2, 9)),
     msg |-> SubSeq(logData, 10, Len(logData))]

\* the body of the callback's loop for one entry: decode it and update the map
Replay(mp, logData) ==
    LET d == Decode(logData)
        kept == IF d.dBit = 1 /\ d.key \in DOMAIN mp THEN MapDelete(mp, d.key) ELSE mp
    IN  MapSet(kept, d.key, d.msg)

\* Recovery returns e with the map as it is
RecoveryReturn(e) ==
    /\ rpc' = "done"
    /\ rret' = e

\* a read error that is noted while the replay goes on
RecoveryAbortGoesOn(e) ==
    /\ rpc' = "read"
    /\ rret' = e

\* a read error: the callback returns it, r.Read returns it, Recovery returns it
RecoveryAbort(e) == RecoveryReturn(e)

\* a log that is replayed unless the WAL needs no recovery
CleanStartUnlessReset(needLogRecovery) == ~needLogRecovery

\* Recovery's test for the early return: !needLogRecovery || reset
CleanStart(needLogRecovery) == ~needLogRecovery \/ resetArg

\* Recovery up to the start of the log recovery: the directory, the WAL, the
\* early return of a clean or reset log, the reader
RecoveryCall ==
    /\ rpc = "start"
    /\ m' = EmptyMap
    /\ \E mkdir \in BOOLEAN, opened \in BOOLEAN, needLogRecovery \in BOOLEAN,
          reader \in BOOLEAN :
        LET walNew == [op |-> "wal.New", ok |-> opened, need |-> needLogRecovery]
        IN  /\ closer' = (closer \/ (mkdir /\ opened))
            /\ IF ~mkdir
               THEN /\ RecoveryReturn("MkdirAll")
                    /\ calls' = calls
               ELSE IF ~opened
               THEN /\ RecoveryReturn("wal.New")
                    /\ calls' = calls \o <<walNew, [op |-> "wal.Close", ok |-> TRUE]>>
               ELSE IF CleanStart(needLogRecovery)
               THEN /\ RecoveryReturn("nil")
                    /\ calls' = calls \o <<walNew>>
               ELSE IF ~reader
               THEN /\ RecoveryReturn("NewReader")
                    /\ calls' = calls \o <<walNew, [op |-> "NewReader", ok |-> FALSE]>>
               ELSE /\ rpc' = "read"
                    /\ rret' = rret
                    /\ calls' = calls \o <<walNew, [op |-> "NewReader", ok |-> TRUE]>>
    /\ UNCHANGED <<batchVars, procVars, writeLockC, chanCap, now, ghostVars,
                   wlog, epochIdx, entryIdx, replayed, resetArg,
                   db, config, version, life>>

\* r.Read calls the callback for the next epoch of the log, or fails to reach
\* it, or returns nil after the last one
RecoveryRead ==
    /\ rpc = "read"
    /\ IF epochIdx < Len(wlog)
       THEN \E ok \in BOOLEAN :
            IF ok
            THEN /\ epochIdx' = epochIdx + 1
                 /\ entryIdx' = 0
                 /\ rpc' = "next"
                 /\ rret' = rret
            ELSE /\ RecoveryAbort("Read")
                 /\ UNCHANGED <<epochIdx, entryIdx>>
       ELSE /\ RecoveryReturn("nil")
            /\ UNCHANGED <<epochIdx, entryIdx>>
    /\ UNCHANGED <<batchVars, procVars, walVars, ghostVars, wlog, m, replayed,
                   resetArg, lifeVars>>

\* One turn of the callback's loop over the r.Count() entries of the epoch:
\* r.Next() fails, or has no entry, or returns the entry that is replayed.
\* After the loop the callback returns (false, nil) and r.Read goes on.
RecoveryNext ==
    /\ rpc = "next"
    /\ IF entryIdx < Len(wlog[epochIdx])
       THEN \E got \in {"err", "end", "ok"} :
            CASE got = "err" ->
                    /\ RecoveryAbort("Next")
                    /\ UNCHANGED <<entryIdx, m, replayed>>
              [] got = "end" ->
                    /\ rpc' = "read"
                    /\ UNCHANGED <<entryIdx, m, replayed, rret>>
              [] got = "ok" ->
                    /\ m' = Replay(m, wlog[epochIdx][entryIdx + 1])
                    /\ replayed' = Append(replayed, wlog[epochIdx][entryIdx + 1])
                    /\ entryIdx' = entryIdx + 1
                    /\ UNCHANGED <<rpc, rret>>
       ELSE /\ rpc' = "read"
            /\ UNCHANGED <<entryIdx, m, replayed, rret>>
    /\ UNCHANGED <<batchVars, procVars, walVars, ghostVars, wlog, epochIdx,
                   resetArg, lifeVars>>

\* ---------------------------------------------------------------- Open, Close
\* the directories Open is called with
Paths == {1, 2}

\* a.config before the first Open: nil
NoConfig == [path |-> 0, size |-> 0, dur |-> 0]

\* IsOpen: a.db != nil
IsOpen == db

\* an Open that takes every adapter for a closed one
AlreadyConnectedNever == FALSE

\* Open's first test: a.db != nil
AlreadyConnected == db

\* Open or Close returns e
LifeReturn(op, e) == life' = Append(life, [op |-> op, e |-> e])

\* Open: refuses an open adapter; else sets the configuration, makes the
\* directory, opens the database (a.db is assigned what memdb.Open returns,
\* nil with an error) and gives the tiny batch a buffer of a new pool
Open ==
    /\ Len(life) < MaxLifeCalls
    /\ \E path \in Paths, mkdir \in BOOLEAN, opened \in BOOLEAN :
        IF AlreadyConnected
        THEN /\ LifeReturn("Open", "connected")
             /\ UNCHANGED <<db, config, mem, blen, calls>>
        ELSE /\ config' = [path |-> path, size |-> 1, dur |-> Dur]
             /\ IF ~mkdir
                THEN /\ Called([op |-> "MkdirAll", ok |-> FALSE])
                     /\ LifeReturn("Open", "MkdirAll")
                     /\ UNCHANGED <<db, mem, blen>>
                ELSE IF ~opened
                THEN /\ calls' = calls \o <<[op |-> "MkdirAll", ok |-> TRUE],
                                            [op |-> "memdb.Open", ok |-> FALSE]>>
                     /\ db' = FALSE
                     /\ LifeReturn("Open", "memdb.Open")
                     /\ UNCHANGED <<mem, blen>>
                ELSE /\ calls' = calls \o <<[op |-> "MkdirAll", ok |-> TRUE],
                                            [op |-> "memdb.Open", ok |-> TRUE]>>
                     /\ db' = TRUE
                     /\ mem' = <<>>
                     /\ blen' = 0
                     /\ LifeReturn("Open", "nil")
    /\ UNCHANGED <<entryCount, procVars, writeLockC, chanCap, now, ghostVars,
                   recoveryVars, closer, version>>

\* What Close returns: the err declared at its top, which holds the error of
\* a.db.Close(). The error of a.closer.Close() goes to the err declared inside
\* the if block, which ends with the block.
CloseReturns(errOuter, errInner) == errOuter

\* Close: on an open adapter closes the database and, if there is one, the
\* closer that Recovery set; on a closed adapter does nothing
Close ==
    /\ Len(life) < MaxLifeCalls
    /\ \E dbOk \in BOOLEAN, closerOk \in BOOLEAN :
        IF db
        THEN LET errOuter == IF dbOk THEN "nil" ELSE "db.Close"
                 errInner == IF closer /\ ~closerOk THEN "closer.Close" ELSE "nil"
             IN  /\ calls' = calls \o <<[op |-> "db.Close", ok |-> dbOk]>> \o
                                (IF closer
                                 THEN <<[op |-> "closer.Close", ok |-> closerOk]>>
                                 ELSE <<>>)
                 /\ db' = FALSE
                 /\ version' = -1
                 /\ closer' = FALSE
                 /\ LifeReturn("Close", CloseReturns(errOuter, errInner))
        ELSE /\ LifeReturn("Close", "nil")
             /\ UNCHANGED <<db, version, closer, calls>>
    /\ UNCHANGED <<batchVars, procVars, writeLockC, chanCap, now, ghostVars,
                   recoveryVars, config>>

\* ---------------------------------------------------------------- record codec
\* the keys the codec is tried on: bytes 1, 2 and 4 of the key not zero
CodecKeys == {0, 258, 16777216}

\* a payload that makes the second byte of the length field non-zero
LongPayload == [i \in 1..243 |-> i]

\* the payloads: nil, empty, short ones, the long one
CodecPayloads == SeqsUpTo({0, 255}, MaxPayload) \cup {NilData, LongPayload}

CodecInputs == [del : BOOLEAN, k : CodecKeys, data : CodecPayloads]

\* Append with every buffer.Write succeeding, taken as one step: the length
\* field, the flag byte and the key, the payload, then the count
CodecAppend ==
    /\ pc[1] = "idle"
    /\ nAppends < MaxAppends
    /\ \E in \in CodecInputs :
        /\ BufferWrite(Scratch(in.data) \o KeyBytes(in.del, in.k) \o DataBytes(in.data))
        /\ rec' = [rec EXCEPT ![1] = in]
        /\ appended' = Append(appended, in)
    /\ entryCount' = incount
    /\ offset' = [offset EXCEPT ![1] = blen]
    /\ nAppends' = nAppends + 1
    /\ pc' = [pc EXCEPT ![1] = "c_slice"]
    /\ UNCHANGED <<idx, bufLen, err, ret, logWriter, walVars, nWrites, crashed,
                   recoveryVars, lifeVars>>

\* Write's loop body on the record just appended: dataLen is read at its
\* offset and the slice is handed to the WAL; a slice that cannot be taken
\* panics
CodecSlice ==
    /\ pc[1] = "c_slice"
    /\ LET o == offset[1]
           dataLen == DataLenAt(o)
       IN  IF Sliceable(o, dataLen)
           THEN /\ Called([op |-> "Append", w |-> 0, ok |-> TRUE,
                           data |-> Slice(o, dataLen)])
                /\ pc' = [pc EXCEPT ![1] = "c_decode"]
                /\ UNCHANGED crashed
           ELSE /\ crashed' = TRUE
                /\ pc' = [pc EXCEPT ![1] = "idle"]
                /\ UNCHANGED calls
    /\ UNCHANGED <<batchVars, rec, offset, idx, bufLen, err, ret, logWriter,
                   writeLockC, chanCap, now, appended, nAppends, nWrites,
                   recoveryVars, lifeVars>>

\* Recovery's loop body on the entry the WAL was handed: r.Next() returns it,
\* it is decoded and the map is updated
CodecReplay ==
    /\ pc[1] = "c_decode"
    /\ replayed' = Append(replayed, calls[Len(calls)].data)
    /\ m' = Replay(m, calls[Len(calls)].data)
    /\ pc' = [pc EXCEPT ![1] = "idle"]
    /\ UNCHANGED <<batchVars, rec, offset, idx, bufLen, err, ret, logWriter, walVars,
                   ghostVars, wlog, rpc, epochIdx, entryIdx, rret, resetArg, lifeVars>>

\* ---------------------------------------------------------------- specification
\* The adapter registered by init, opened, its log opened by Recovery.
InitBatch ==
    /\ mem = <<>>
    /\ blen = 0
    /\ entryCount = 0
    /\ writeLockC = 0
    /\ pc = [p \in Procs |-> "idle"]
    /\ rec = [p \in Procs |-> NoRec]
    /\ offset = [p \in Procs |-> 0]
    /\ idx = [p \in Procs |-> 0]
    /\ bufLen = [p \in Procs |-> 0]
    /\ err = [p \in Procs |-> "nil"]
    /\ ret = [p \in Procs |-> [op |-> "none", e |-> "none", n |-> 0]]
    /\ logWriter = [p \in Procs |-> 0]
    /\ calls = <<>>
    /\ appended = <<>>
    /\ now = 0
    /\ nAppends = 0
    /\ nWrites = 0
    /\ crashed = FALSE

InitNoRecovery ==
    /\ wlog = <<>>
    /\ rpc = "done"
    /\ epochIdx = 0
    /\ entryIdx = 0
    /\ m = EmptyMap
    /\ replayed = <<>>
    /\ rret = "nil"
    /\ resetArg = FALSE

\* Open has returned nil on the adapter registered by init
InitOpened ==
    /\ db = TRUE
    /\ config = [path |-> 1, size |-> 1, dur |-> Dur]
    /\ version = 0
    /\ life = <<[op |-> "Open", e |-> "nil"]>>

\* init: writeLockC is make(chan struct{}), a channel without a slot
Init ==
    /\ InitBatch
    /\ InitNoRecovery
    /\ InitOpened
    /\ closer = TRUE
    /\ chanCap = 0

\* the write serializer as the single-slot gate it is meant to be
InitGate ==
    /\ InitBatch
    /\ InitNoRecovery
    /\ InitOpened
    /\ closer = TRUE
    /\ chanCap = 1

\* Recovery is called on a log left by an earlier run
InitRecovery ==
    /\ InitBatch
    /\ InitOpened
    /\ closer = FALSE
    /\ chanCap = 0
    /\ wlog \in Logs
    /\ resetArg \in BOOLEAN
    /\ rpc = "start"
    /\ epochIdx = 0
    /\ entryIdx = 0
    /\ m = EmptyMap
    /\ replayed = <<>>
    /\ rret = "none"

Appends ==
    \/ \E p \in Procs : AppendCall(p)
    \/ \E p \in Procs : AppendKey(p)
    \/ \E p \in Procs : AppendData(p)
    \/ \E p \in Procs : AppendCount(p)

\* every step of Write an action of its own
Next ==
    \/ Appends
    \/ \E p \in Procs : WriteCall(p)
    \/ \E p \in Procs : WriteAcquire(p)
    \/ \E p \in Procs : WriteLoop(p)
    \/ \E p \in Procs : WriteSignalInit(p)
    \/ \E p \in Procs : WriteReset(p)
    \/ \E p \in Procs : WriteSignalApplied(p)
    \/ \E p \in Procs : WriteDeferred(p)

\* the same steps, Write taken as one action
NextCode ==
    \/ Appends
    \/ \E p \in Procs : Write(p)

NextRecovery ==
    \/ RecoveryCall
    \/ RecoveryRead
    \/ RecoveryNext

\* The adapter as init builds it. No Write gets past the send on writeLockC
\* here, so the steps of Write after it never happen.
Spec == Init /\ [][NextCode]_vars

\* the adapter with the write serializer admitting one Write at a time
SpecGate == InitGate /\ [][Next]_vars

\* no Write is between its call and its return
NoWriteRunning == \A q \in Procs : pc[q] \notin WritePcs

\* Append and Write called one after the other: no step of an Append while a
\* Write runs, no step of a Write while an Append runs
NextSequential ==
    \/ (NoWriteRunning /\ Appends)
    \/ (NoAppendRunning /\ \E p \in Procs : Write(p))

\* the adapter with the serializer admitting one Write at a time, its callers
\* keeping Append out of a flush
SpecSequential == InitGate /\ [][NextSequential]_vars

\* Recovery alone, before any Append or Write
SpecRecovery == InitRecovery /\ [][NextRecovery]_vars

\* the adapter as init registers it: no database, no configuration
InitLifecycle ==
    /\ InitBatch
    /\ chanCap = 0
    /\ db = FALSE
    /\ config = NoConfig
    /\ closer = FALSE
    /\ version = 0
    /\ life = <<>>
    /\ wlog = <<>>
    /\ resetArg = FALSE
    /\ rpc = "start"
    /\ epochIdx = 0
    /\ entryIdx = 0
    /\ m = EmptyMap
    /\ replayed = <<>>
    /\ rret = "none"

\* Open and Close in any order; on the open adapter, Append and Recovery (of
\* an empty log)
NextLifecycle ==
    \/ Open
    \/ Close
    \/ (IsOpen /\ Appends)
    \/ (IsOpen /\ RecoveryCall)
    \/ RecoveryRead

\* the life cycle of the adapter from its registration by init
SpecLifecycle == InitLifecycle /\ [][NextLifecycle]_vars

NextCodec ==
    \/ CodecAppend
    \/ CodecSlice
    \/ CodecReplay

\* the record codec alone: records are encoded by Append, sliced by Write and
\* decoded by Recovery, one after the other in one buffer
SpecCodec == Init /\ [][NextCodec]_vars

\* The adapter as init builds it, under a scheduler that lets every goroutine
\* take the step it is able to take.
FairSpec ==
    /\ Spec
    /\ \A p \in Procs : WF_vars(Write(p))
    /\ WF_vars(Appends)

\* ---------------------------------------------------------------- claims: Recovery
\* the record an entry of the log was encoded from
RecordOf(entry) == CHOOSE r \in LogInputs : Region(r) = entry

\* the keys of the entries replayed so far
ReplayedKeys == {RecordOf(replayed[i]).k : i \in 1..Len(replayed)}

\* the last replayed record of a key
LastRecord(key) ==
    LET is == {i \in 1..Len(replayed) : RecordOf(replayed[i]).k = key}
    IN  RecordOf(replayed[CHOOSE i \in is : \A j \in is : j <= i])

\* C5: when Recovery has replayed the log and returned without error, a key
\* whose last replayed record is a delete is absent from the returned map.
C5_TombstoneAbsent ==
    (rpc = "done" /\ rret = "nil") =>
        \A key \in ReplayedKeys : LastRecord(key).del => key \notin DOMAIN m

\* C6: a key whose last replayed record is a set is in the map with exactly the
\* payload of that record, whatever was replayed for the key before.
C6_LastSetWins ==
    \A key \in ReplayedKeys :
        ~LastRecord(key).del =>
            /\ key \in DOMAIN m
            /\ m[key] = DataBytes(LastRecord(key).data)

\* C6 witness: Recovery returned a map after replaying two set records of one
\* key with different payloads, and the map holds the later payload.
C6_Witness ==
    /\ rpc = "done"
    /\ rret = "nil"
    /\ \E i, j \in 1..Len(replayed) :
        /\ i < j
        /\ RecordOf(replayed[i]).k = RecordOf(replayed[j]).k
        /\ ~RecordOf(replayed[i]).del
        /\ ~RecordOf(replayed[j]).del
        /\ RecordOf(replayed[i]).data # RecordOf(replayed[j]).data
        /\ LastRecord(RecordOf(replayed[j]).k) = RecordOf(replayed[j])
        /\ m[RecordOf(replayed[j]).k] = RecordOf(replayed[j]).data

\* wal.New returned a WAL without error
WalOpened(c) == c.op = "wal.New" /\ c.ok

\* C11: when the WAL opens without error and either needs no recovery or reset
\* is requested, Recovery returns an empty map and no error, creates no reader
\* and reads no entry, whatever the log holds.
C11_CleanStartReplaysNothing ==
    \A i \in DOMAIN calls :
        (WalOpened(calls[i]) /\ (~calls[i].need \/ resetArg)) =>
            /\ rpc = "done"
            /\ rret = "nil"
            /\ m = EmptyMap
            /\ replayed = <<>>
            /\ epochIdx = 0
            /\ \A j \in DOMAIN calls : calls[j].op # "NewReader"

\* C11 witness: Recovery returned on a WAL that needs recovery and holds
\* entries, with reset requested.
C11_Witness ==
    /\ rpc = "done"
    /\ resetArg
    /\ wlog # <<>>
    /\ wlog[1] # <<>>
    /\ \E i \in DOMAIN calls : WalOpened(calls[i]) /\ calls[i].need

\* C19: whenever Recovery returns an error, the map it returns is empty.
C19_FailureReturnsEmptyMap ==
    (rpc = "done" /\ rret # "nil") => m = EmptyMap

\* C20: once r.Next or r.Read has failed, Recovery has returned that error, and
\* no entry is decoded or applied to the map after it.
C20_ReadErrorAborts ==
    [][/\ rret' \in {"Next", "Read"} => rpc' = "done"
       /\ rret \in {"Next", "Read"} => UNCHANGED <<m, replayed, rret, rpc>>]_vars

\* C20 witness: r.Next failed after an entry was replayed while the log holds
\* entries after it, and Recovery returned the error.
C20_Witness ==
    /\ rpc = "done"
    /\ rret = "Next"
    /\ Len(replayed) = 1
    /\ Len(wlog) = 2
    /\ Len(wlog[1]) = 2
    /\ Len(wlog[2]) = 1

\* ---------------------------------------------------------------- claims: Open, Close
\* the last Open or Close that returned
LastLife == life[Len(life)]

\* this step is the return of an Open or a Close
LifeStep == Len(life') = Len(life) + 1

\* some Open has returned nil and no Close has returned after it
OpenedAndNotClosed ==
    \E i \in DOMAIN life :
        /\ life[i] = [op |-> "Open", e |-> "nil"]
        /\ \A j \in DOMAIN life : j > i => life[j].op # "Close"

\* the calls Open and Close make on the directory, the KV engine and the closer
LifeOp(c) == c.op \in {"MkdirAll", "memdb.Open", "db.Close", "closer.Close"}

\* C14: no error of a collaborator is swallowed: when a call that Open or
\* Close makes on the directory, the KV engine or the WAL handle fails, the
\* operation returns a non-nil error; in particular Close returns an error
\* when closing the WAL handle fails. Likewise Recovery when wal.New,
\* NewReader or a read fails.
C14_NoErrorSwallowed ==
    [][/\ \A i \in DOMAIN calls' :
            (i > Len(calls) /\ LifeOp(calls'[i]) /\ ~calls'[i].ok) =>
                (LifeStep /\ LastLife'.e # "nil")
       /\ \A i \in DOMAIN calls' :
            (i > Len(calls) /\ calls'[i].op \in {"wal.New", "NewReader"}
                /\ ~calls'[i].ok) => (rpc' = "done" /\ rret' # "nil")]_vars

\* C15: IsOpen() is true exactly when some Open has succeeded with no Close
\* after it; an Open that fails on a closed adapter leaves IsOpen() false; an
\* Open on an open adapter returns an error and leaves the database handle,
\* the configuration and the tiny batch as they are.
C15_OpenCloseLifecycle ==
    [][/\ IsOpen' <=> OpenedAndNotClosed'
       /\ (LifeStep /\ LastLife'.op = "Open" /\ ~IsOpen /\ LastLife'.e # "nil") =>
            ~IsOpen'
       /\ (LifeStep /\ LastLife'.op = "Open" /\ IsOpen) =>
            /\ LastLife'.e # "nil"
            /\ UNCHANGED <<db, config, batchVars>>]_vars

\* C15 witness: an Open with another directory was refused on the open
\* adapter whose batch holds a record, after a failed Open, an Open and a
\* Close before it.
C15_Witness ==
    /\ Len(life) = 3
    /\ life[1] = [op |-> "Open", e |-> "memdb.Open"]
    /\ life[2] = [op |-> "Open", e |-> "nil"]
    /\ life[3] = [op |-> "Open", e |-> "connected"]
    /\ IsOpen
    /\ count = 1
    /\ blen > 0

\* the number of complete encoded records bs is made of, -1 if it is not made
\* of complete records
RECURSIVE CompleteRecords(_)
CompleteRecords(bs) ==
    IF bs = <<>> THEN 0
    ELSE IF Len(bs) < 4 THEN -1
    ELSE LET n == LittleEndian(SubSeq(bs, 1, 4))
         IN  IF n < 13 \/ n > Len(bs) THEN -1
             ELSE LET rest == CompleteRecords(SubSeq(bs, n + 1, Len(bs)))
                  IN  IF rest = -1 THEN -1 ELSE rest + 1

\* C16: whenever no Append or Write is executing, the buffer is made of
\* exactly count() complete encoded records: no count without its records, no
\* bytes without their count, no partial record.
C16_BatchConsistent ==
    (\A p \in Procs : pc[p] = "idle") => count = CompleteRecords(Bytes)

\* ---------------------------------------------------------------- claims: Write
Range(f) == {f[i] : i \in DOMAIN f}

\* how often x occurs in the sequence f
Occurrences(f, x) == Cardinality({i \in DOMAIN f : f[i] = x})

\* the bytes Append writes for a record: length field, flag, key, payload
Encoded(r) == Scratch(r.data) \o Region(r)

\* how often the encoded record lies in the buffer while count() covers a record
HeldInBatch(r) ==
    IF count = 0 THEN 0
    ELSE Cardinality({o \in 0..blen :
            /\ o + Len(Encoded(r)) <= blen
            /\ SubSeq(mem, o + 1, o + Len(Encoded(r))) = Encoded(r)})

\* how often the record was passed to a WAL writer's Append
PassedToWAL(r) ==
    Cardinality({i \in DOMAIN calls : calls[i].op = "Append" /\ calls[i].data = Region(r)})

\* the calls of a flush between the send on writeLockC and the receive
FlushOp(c) == c.op \in {"Append", "SignalInitWrite", "SignalLogApplied"}

\* id is the epoch that holds the time at
CurrentEpoch(id, at) == id % Dur = 0 /\ id <= at /\ at < id + Dur

\* id is the epoch after the one that holds the time at
NextEpoch(id, at) == id % Dur = 0 /\ at < id /\ id <= at + Dur

C3_WriteReturns == \A p \in Procs : (pc[p] = "acquire") ~> (pc[p] = "idle")

Decoded(r) == [dBit |-> IF r.del THEN 1 ELSE 0, key |-> r.k, msg |-> DataBytes(r.data)]

\* C13: for every delete flag, key and payload, at any offset of the buffer,
\* the slice Write takes for a record that Append encoded is exactly its flag
\* byte, its 8 key bytes and its payload, taking it does not panic, and
\* decoding it as Recovery does gives back the flag, the key and the payload.
C13_CodecRoundTrip ==
    /\ ~crashed
    /\ pc[1] = "c_decode" => calls[Len(calls)].data = Region(rec[1])
    /\ \A i \in DOMAIN replayed :
         /\ i <= Len(appended)
         /\ Decode(replayed[i]) = Decoded(appended[i])

\* C13 witness: a delete without payload and a set of the long payload under
\* a key of four bytes went through the codec, the second at the offset
\* where the first ends.
C13_Witness ==
    /\ Len(replayed) = 2
    /\ appended[1].del
    /\ appended[1].data = NilData
    /\ ~appended[2].del
    /\ appended[2].k = 16777216
    /\ appended[2].data = LongPayload
    /\ offset[1] = 13
    /\ pc[1] = "idle"

\* this step is a turn of p's loop that hands a slice to its WAL writer
LoopAppends(p) ==
    /\ pc[p] = "loop"
    /\ Len(calls') = Len(calls) + 1
    /\ calls'[Len(calls')].op = "Append"
    /\ calls'[Len(calls')].w = logWriter[p]

\* this step is a turn of p's loop that panics
LoopPanics(p) == pc[p] = "loop" /\ err[p] # "panic" /\ err'[p] = "panic"

\* every call on the WAL so far succeeded: no Write has failed
NoWriteFailed == \A i \in DOMAIN calls : calls[i].ok

C8_SuccessLeavesBatchEmpty ==
    [][\A p \in Procs :
        (/\ ret'[p] # ret[p]
         /\ ret'[p].op = "Write"
         /\ ret'[p].e = "nil"
         /\ NoAppendRunning') =>
            (count' = 0 /\ blen' = 0)]_vars

\* C9: a Write called while count() is 0 returns nil, makes no call on the WAL,
\* does not touch writeLockC and leaves count and buffer as they are.
C9_EmptyWriteNoOp ==
    [][(nWrites' = nWrites + 1 /\ count = 0) =>
        /\ \E p \in Procs :
            /\ ret'[p] = [op |-> "Write", e |-> "nil", n |-> nWrites + 1]
            /\ \A q \in Procs \ {p} : ret'[q] = ret[q]
        /\ pc' = pc
        /\ calls' = calls
        /\ writeLockC' = writeLockC
        /\ UNCHANGED batchVars]_vars

\* C9 witness: a Write returned nil on a batch of count 0 whose buffer holds
\* the bytes of an Append that failed, and no call was made on the WAL.
C9_Witness ==
    \E p \in Procs :
        /\ ret[p].op = "Write"
        /\ ret[p].e = "nil"
        /\ count = 0
        /\ blen > 0
        /\ NoAppendRunning
        /\ calls = <<>>

\* C10: a Write whose NewWriter fails returns that error, leaves count, buffer
\* and writeLockC as they are, and no record or signal ever goes to that writer.
C10_NewWriterFailureLeavesBatch ==
    [][/\ (/\ nWrites' = nWrites + 1
           /\ calls' # calls
           /\ ~calls'[Len(calls')].ok) =>
             /\ \E p \in Procs :
                 /\ ret'[p] = [op |-> "Write", e |-> "NewWriter", n |-> nWrites + 1]
                 /\ \A q \in Procs \ {p} : ret'[q] = ret[q]
             /\ pc' = pc
             /\ Len(calls') = Len(calls) + 1
             /\ writeLockC' = writeLockC
             /\ UNCHANGED batchVars
       /\ \A i, j \in DOMAIN calls' :
            (calls'[i].op = "NewWriter" /\ ~calls'[i].ok) =>
                ~(FlushOp(calls'[j]) /\ calls'[j].w = calls'[i].w)]_vars

\* C10 witness: a Write returned the error of NewWriter and the batch still
\* holds the record appended before it.
C10_Witness ==
    \E p \in Procs :
        /\ ret[p].op = "Write"
        /\ ret[p].e = "NewWriter"
        /\ count = 1
        /\ Len(appended) = 1
        /\ Bytes = Encoded(appended[1])
        /\ calls[Len(calls)] = [op |-> "NewWriter", w |-> ret[p].n, ok |-> FALSE]

====
